---- MODULE Spec2Model ----
(***************************************************************************)
(* Sandbox lifecycle and log streaming of server.js (src/unnamed/part_000). *)
(*                                                                         *)
(* Node runs one handler at a time; a handler gives up control only at an  *)
(* await.  Every action below is one such uninterrupted piece of a handler *)
(* or callback: from its start (or the resumption after an await) to its   *)
(* next await or its end.  The Docker daemon and the file system are the   *)
(* environment: each awaited adapter call may succeed or fail.             *)
(***************************************************************************)
EXTENDS Integers, Sequences, FiniteSets, TLC

\* ------------------------------------------------------------------ bounds
MaxCalls == 3        \* lifecycle requests issued in one behaviour of Spec
MaxWsCalls == 2      \* lifecycle requests issued in one behaviour of SpecWs
MaxSeqCalls == 4     \* lifecycle requests issued in one behaviour of SpecSeq
MaxChunks == 2       \* output chunks delivered in one behaviour of SpecWs
MaxSubs == 1         \* websocket connections in one behaviour of SpecWs
MaxLogChunks == 2001 \* output chunks delivered in one behaviour of SpecLog
MaxFanSubs == 2      \* websocket connections in one behaviour of SpecFan
MaxFanChunks == 2    \* output chunks delivered in one behaviour of SpecFan
MaxTwoCalls == 2     \* lifecycle requests issued in one behaviour of SpecTwo
MaxTwoChunks == 1    \* output chunks delivered in one behaviour of SpecTwo
MaxRel == 5          \* characters of the path a file request names

\* ------------------------------------------------------- program constants
LogCap == 2000       \* if (entry.logs.length > 2000) entry.logs.shift()
Replay == 200        \* entry.logs.slice(-200)

Ids == {"b1", "b2"}                       \* bundle identifiers
Slots == IF MaxCalls > MaxSeqCalls THEN MaxCalls ELSE MaxSeqCalls
Threads == 1..Slots                       \* one per lifecycle request
Conts == 1..Slots                         \* containers docker can hand out
SubSlots == IF MaxSubs > MaxFanSubs THEN MaxSubs ELSE MaxFanSubs
Subs == 1..SubSlots                       \* websocket connections
Candidates == <<"index.js", "app.js", "server.js">>
FileNames == {"index.js", "app.js", "server.js", "package.json:main"}

VARIABLES
  dirExists,   \* [Ids -> BOOLEAN]: DATA_DIR/<id> exists
  files,       \* [Ids -> SUBSET FileNames]: what the bundle directory holds
  bots,        \* the Map bots: [Ids -> 0..MaxCalls], 0 = no entry, c = the
               \* entry object created for container c
  nextC,       \* containers created so far by docker.createContainer
  cstate,      \* [Conts -> "none" | "created" | "running" | "exited"]
  cbot,        \* [Conts -> Ids \cup {"none"}]: the bundle the container mounts
  logs,        \* [Conts -> Seq(line)]: entry.logs of the container's entry
  listeners,   \* [Conts -> SUBSET Subs]: entry.listeners
  logAttached, \* [Conts -> BOOLEAN]: logStream.on('data') is registered
  waitReg,     \* [Conts -> BOOLEAN]: container.wait().then(...) is registered
  waitDone,    \* [Conts -> BOOLEAN]: the wait callback has run
  pc,          \* [Threads -> position of the request's handler]
  op,          \* [Threads -> "none" | "start" | "stop" | "restart" | "delete"]
  tid,         \* [Threads -> Ids \cup {"none"}]: req.params.id
  tc,          \* [Threads -> 0..MaxCalls]: the container the handler holds
  res,         \* [Threads -> outcome of the request]
  resC,        \* [Threads -> 0..MaxCalls]: containerId the request returned
  conc,        \* [Threads -> SUBSET Threads]: requests in flight when this one began
  stoppedAt,   \* [Threads -> BOOLEAN]: the bundle had no entry and no sandbox
               \* when this request began
  fault,       \* an adapter call has failed, or a sandbox has ended by itself
  reqIds,      \* the identifiers requests name in this behaviour
  seqClient,   \* the client sends a request only after the last one was answered
  callsLeft,   \* lifecycle requests still to be issued
  chunksLeft,  \* output chunks still to be delivered
  subsLeft,    \* websocket connections still to be made
  fileReq,     \* the file request being served: [method, id, rel]
  fileRes,     \* "none" | "passed" | "Invalid path": the outcome of its path check
  wsState,     \* [Subs -> "idle" | "open" | "broken" | "closed"]: broken = the
               \* socket has left OPEN and its 'close' event has not run yet
  wsBot,       \* [Subs -> Ids \cup {"none"}]: the botId of the connection
  wsEntry,     \* [Subs -> 0..MaxCalls]: the entry the connection closed over
  recv,        \* [Subs -> Seq(message)]: what ws.send delivered
  hist,        \* [Ids -> Seq(line)]: every line appended for the bundle
  histAt,      \* [Subs -> Seq(line)]: hist of the bundle when s connected
  after        \* [Subs -> Seq(line)]: lines appended for the bundle since

fsVars == <<dirExists, files>>
contVars == <<nextC, cstate, cbot, logAttached, waitReg, waitDone>>
logVars == <<logs, listeners>>
threadVars == <<pc, op, tid, tc, conc, stoppedAt, callsLeft>>
cfgVars == <<reqIds, seqClient>>
fileVars == <<fileReq, fileRes>>

\* No file request is being served.
NoFile == [method |-> "none", id |-> <<>>, rel |-> <<>>]
wsVars == <<wsState, wsBot, wsEntry, histAt>>
obsVars == <<recv, hist, after>>
vars == <<dirExists, files, bots, nextC, cstate, cbot, logs, listeners,
          logAttached, waitReg, waitDone, pc, op, tid, tc, res, resC, conc,
          stoppedAt, fault, reqIds, seqClient, callsLeft, chunksLeft, subsLeft,
          fileReq, fileRes, wsState, wsBot, wsEntry, recv, hist, histAt, after>>

\* ----------------------------------------------------------------- helpers

\* startBot lines 189-202: the first conventional file name present, else
\* package.json's main, else nothing.
RECURSIVE FirstCandidate(_, _)
FirstCandidate(fs, i) ==
  IF i > Len(Candidates) THEN "none"
  ELSE IF Candidates[i] \in fs THEN Candidates[i]
  ELSE FirstCandidate(fs, i + 1)

EntryPoint(fs) ==
  LET c == FirstCandidate(fs, 1)
  IN IF c # "none" THEN c
     ELSE IF "package.json:main" \in fs THEN "main"
     ELSE "none"

\* Array.prototype.slice(-n): the last n elements, all of them when shorter.
SliceLast(s, n) ==
  IF Len(s) <= n THEN s ELSE SubSeq(s, Len(s) - n + 1, Len(s))

\* logStream data handler, lines 235-236: push, then one shift when over 2000.
PushShift(s, line) ==
  LET t == Append(s, line)
  IN IF Len(t) > LogCap THEN Tail(t) ELSE t

\* wait callback, line 245: push only.
PushOnly(s, line) == Append(s, line)

\* The fan-out loop without its try/catch: the first listener whose ws.send
\* fails ends the loop (a Set iterates in insertion order, and connections
\* are numbered in the order they are made).
DeliverNoCatch(r, ls, line) ==
  [s \in Subs |-> IF /\ s \in ls
                     /\ \A u \in ls : u <= s => wsState[u] = "open"
                  THEN Append(r[s], <<"log", line>>) ELSE r[s]]

\* The fan-out loop sending to every connection of the server.
DeliverAll(r, ls, line) ==
  [s \in Subs |-> IF wsState[s] = "open"
                  THEN Append(r[s], <<"log", line>>) ELSE r[s]]

\* The fan-out loops (lines 237-239 and 246) over onLog (line 175) of every
\* listener of the entry: ws.send of a log message; a send that fails is
\* caught, delivers nothing, and the loop goes on.
Deliver(r, ls, line) ==
  [s \in Subs |-> IF s \in ls /\ wsState[s] = "open"
                  THEN Append(r[s], <<"log", line>>) ELSE r[s]]

\* The lines appended for bundle id, as seen by the connections open on it.
Observe(a, id, line) ==
  [s \in Subs |-> IF wsState[s] = "open" /\ wsBot[s] = id
                  THEN Append(a[s], line) ELSE a[s]]

InFlight(t) == pc[t] \notin {"idle", "done"}

\* GET /api/bots/:id/status, line 157.
StatusRunning(id) == bots[id] # 0
StatusContainer(id) == bots[id]

\* The bundle has no registry entry and no sandbox created or running.
IsStopped(id) ==
  /\ bots[id] = 0
  /\ \A c \in Conts : cbot[c] = id => cstate[c] \notin {"created", "running"}

Finish(t, r, c) ==
  /\ pc' = [pc EXCEPT ![t] = "done"]
  /\ res' = [res EXCEPT ![t] = r]
  /\ resC' = [resC EXCEPT ![t] = c]

\* A request enters its handler: the next free request slot, in order.
Begin(t, o, id) ==
  /\ pc[t] = "idle"
  /\ callsLeft > 0
  /\ IF t = 1 THEN TRUE ELSE pc[t - 1] # "idle"
  /\ id \in reqIds
  /\ seqClient => \A u \in Threads : ~InFlight(u)
  /\ op' = [op EXCEPT ![t] = o]
  /\ tid' = [tid EXCEPT ![t] = id]
  /\ conc' = [conc EXCEPT ![t] = {u \in Threads : InFlight(u)}]
  /\ stoppedAt' = [stoppedAt EXCEPT ![t] = IsStopped(id)]
  /\ callsLeft' = callsLeft - 1
  /\ fault' = fault

\* ------------------------------------------------------------------- Init

InitCommon ==
  /\ bots = [i \in Ids |-> 0]
  /\ nextC = 0
  /\ cstate = [c \in Conts |-> "none"]
  /\ cbot = [c \in Conts |-> "none"]
  /\ logs = [c \in Conts |-> <<>>]
  /\ listeners = [c \in Conts |-> {}]
  /\ logAttached = [c \in Conts |-> FALSE]
  /\ waitReg = [c \in Conts |-> FALSE]
  /\ waitDone = [c \in Conts |-> FALSE]
  /\ pc = [t \in Threads |-> "idle"]
  /\ op = [t \in Threads |-> "none"]
  /\ tid = [t \in Threads |-> "none"]
  /\ tc = [t \in Threads |-> 0]
  /\ res = [t \in Threads |-> "none"]
  /\ resC = [t \in Threads |-> 0]
  /\ conc = [t \in Threads |-> {}]
  /\ stoppedAt = [t \in Threads |-> FALSE]
  /\ fault = FALSE
  /\ wsState = [s \in Subs |-> "idle"]
  /\ wsBot = [s \in Subs |-> "none"]
  /\ wsEntry = [s \in Subs |-> 0]
  /\ recv = [s \in Subs |-> <<>>]
  /\ hist = [i \in Ids |-> <<>>]
  /\ histAt = [s \in Subs |-> <<>>]
  /\ after = [s \in Subs |-> <<>>]
  /\ fileRes = "none"

\* The server has just come up (bots is empty, line 34); the data directory
\* holds bundle b1, with or without an entry file, and no b2.
Init ==
  /\ InitCommon
  /\ dirExists = [i \in Ids |-> i = "b1"]
  /\ \E f \in {{"index.js"}, {}} : files = [i \in Ids |-> IF i = "b1" THEN f ELSE {}]
  /\ reqIds = {"b1"}
  /\ seqClient = FALSE
  /\ callsLeft = MaxCalls
  /\ chunksLeft = 0
  /\ subsLeft = 0
  /\ fileReq = NoFile

\* ---------------------------------------------------------------- startBot

\* POST /api/bots/:id/start, lines 123-126, and startBot up to its first
\* await (line 185).
StartInvoke(t, id) ==
  /\ Begin(t, "start", id)
  /\ pc' = [pc EXCEPT ![t] = "s_exists"]
  /\ UNCHANGED <<fsVars, bots, contVars, logVars, tc, res, resC, cfgVars, fileVars,
                 chunksLeft, subsLeft, wsVars, obsVars>>

\* startBot lines 185-186, resumed after fs.pathExists(dir).
StartExists(t) ==
  /\ pc[t] = "s_exists"
  /\ IF ~dirExists[tid[t]]
     THEN Finish(t, "NotFound", 0)
     ELSE IF bots[tid[t]] # 0
     THEN Finish(t, "already", bots[tid[t]])
     ELSE pc' = [pc EXCEPT ![t] = "s_entry"] /\ UNCHANGED <<res, resC>>
  /\ UNCHANGED <<fault, fsVars, bots, contVars, logVars, op, tid, tc, conc, stoppedAt, cfgVars, fileVars,
                 callsLeft, chunksLeft, subsLeft, wsVars, obsVars>>

\* startBot lines 189-211: the entry point is looked up, and createContainer
\* is called when there is one.
StartEntry(t) ==
  /\ pc[t] = "s_entry"
  /\ IF EntryPoint(files[tid[t]]) = "none"
     THEN Finish(t, "NoEntryPoint", 0)
     ELSE pc' = [pc EXCEPT ![t] = "s_create"] /\ UNCHANGED <<res, resC>>
  /\ UNCHANGED <<fault, fsVars, bots, contVars, logVars, op, tid, tc, conc, stoppedAt, cfgVars, fileVars,
                 callsLeft, chunksLeft, subsLeft, wsVars, obsVars>>

\* startBot lines 211-226: createContainer has answered; on success
\* container.start() is called.
StartCreate(t) ==
  /\ pc[t] = "s_create"
  /\ \/ /\ nextC < Slots
        /\ nextC' = nextC + 1
        /\ cstate' = [cstate EXCEPT ![nextC + 1] = "created"]
        /\ cbot' = [cbot EXCEPT ![nextC + 1] = tid[t]]
        /\ tc' = [tc EXCEPT ![t] = nextC + 1]
        /\ pc' = [pc EXCEPT ![t] = "s_start"]
        /\ UNCHANGED <<res, resC, fault>>
     \/ /\ Finish(t, "RuntimeFailure", 0)
        /\ fault' = TRUE
        /\ UNCHANGED <<nextC, cstate, cbot, tc>>
  /\ UNCHANGED <<fsVars, bots, logVars, logAttached, waitReg, waitDone, op,
                 tid, conc, stoppedAt, cfgVars, fileVars, callsLeft, chunksLeft, subsLeft, wsVars, obsVars>>

\* A startBot that replaces the whole registry by the one new entry.
SetEntryAlone(id, c) == [i \in Ids |-> IF i = id THEN c ELSE 0]

\* The entry startBot stores at lines 228-229.
SetEntry(id, c) == [bots EXCEPT ![id] = c]

\* startBot lines 226-232: container.start() has answered; on success the
\* entry is created and stored and container.logs() is called.
StartStarted(t) ==
  /\ pc[t] = "s_start"
  /\ \/ /\ cstate' = [cstate EXCEPT ![tc[t]] = "running"]
        /\ bots' = SetEntry(tid[t], tc[t])
        /\ logs' = [logs EXCEPT ![tc[t]] = <<>>]
        /\ listeners' = [listeners EXCEPT ![tc[t]] = {}]
        /\ pc' = [pc EXCEPT ![t] = "s_logs"]
        /\ UNCHANGED <<res, resC, fault>>
     \/ /\ Finish(t, "RuntimeFailure", 0)
        /\ fault' = TRUE
        /\ UNCHANGED <<cstate, bots, logVars>>
  /\ UNCHANGED <<fsVars, nextC, cbot, logAttached, waitReg, waitDone, op,
                 tid, tc, conc, stoppedAt, cfgVars, fileVars, callsLeft, chunksLeft, subsLeft, wsVars, obsVars>>

\* startBot lines 232-250: container.logs() has answered; on success the data
\* handler and the wait callback are registered and the container id returned.
StartLogs(t) ==
  /\ pc[t] = "s_logs"
  /\ \/ /\ logAttached' = [logAttached EXCEPT ![tc[t]] = TRUE]
        /\ waitReg' = [waitReg EXCEPT ![tc[t]] = TRUE]
        /\ Finish(t, "started", tc[t])
        /\ fault' = fault
     \/ /\ Finish(t, "RuntimeFailure", 0)
        /\ fault' = TRUE
        /\ UNCHANGED <<logAttached, waitReg>>
  /\ UNCHANGED <<fsVars, bots, nextC, cstate, cbot, waitDone, logVars, op,
                 tid, tc, conc, stoppedAt, cfgVars, fileVars, callsLeft, chunksLeft, subsLeft, wsVars, obsVars>>

\* ----------------------------------------------------------------- stopBot

\* A stopBot that deletes the entry only when container.stop() resolved.
AfterStopIfOk(id, ok) == IF ok THEN [bots EXCEPT ![id] = 0] ELSE bots

\* stopBot line 259, reached whether container.stop() resolved or threw
\* (the catch at line 258 swallows the error).
AfterStop(id, ok) == [bots EXCEPT ![id] = 0]

\* What container.stop({t: 5}) does to the container when it succeeds;
\* a failed stop leaves the container as it was.
Stopped(c, ok) ==
  IF ok /\ cstate[c] \in {"created", "running"}
  THEN [cstate EXCEPT ![c] = "exited"]
  ELSE cstate

\* stopBot lines 254-257, run by the stop, restart and delete handlers up to
\* their first await: with no entry stopBot returns at once, with an entry
\* container.stop() is called.  next is where the handler goes on when
\* stopBot returned at once.
StopBegin(t, id, next) ==
  IF bots[id] = 0
  THEN /\ pc' = [pc EXCEPT ![t] = next]
       /\ tc' = tc
  ELSE /\ pc' = [pc EXCEPT ![t] = "t_stop"]
       /\ tc' = [tc EXCEPT ![t] = bots[id]]

\* POST /api/bots/:id/stop, lines 133-137.
StopInvoke(t, id) ==
  /\ Begin(t, "stop", id)
  /\ StopBegin(t, id, "done")
  /\ res' = [res EXCEPT ![t] = IF bots[id] = 0 THEN "ok" ELSE "none"]
  /\ UNCHANGED <<fsVars, bots, contVars, logVars, resC, cfgVars, fileVars, chunksLeft, subsLeft,
                 wsVars, obsVars>>

\* POST /api/bots/:id/restart, lines 143-147: stopBot, then startBot.
RestartInvoke(t, id) ==
  /\ Begin(t, "restart", id)
  /\ StopBegin(t, id, "s_exists")
  /\ UNCHANGED <<fsVars, bots, contVars, logVars, res, resC, cfgVars, fileVars,
                 chunksLeft, subsLeft, wsVars, obsVars>>

\* DELETE /api/bots/:id, lines 73-79: stopBot when there is an entry, then
\* fs.remove.
DeleteInvoke(t, id) ==
  /\ Begin(t, "delete", id)
  /\ StopBegin(t, id, "d_remove")
  /\ UNCHANGED <<fsVars, bots, contVars, logVars, res, resC, cfgVars, fileVars,
                 chunksLeft, subsLeft, wsVars, obsVars>>

\* stopBot lines 257-260, resumed after container.stop(): the entry of the
\* identifier is deleted, and the calling handler goes on (stop: responds;
\* restart: startBot; delete: fs.remove).
StopReturn(t) ==
  /\ pc[t] = "t_stop"
  /\ \E ok \in BOOLEAN :
       /\ cstate' = Stopped(tc[t], ok)
       /\ bots' = AfterStop(tid[t], ok)
       /\ fault' = (fault \/ ~ok)
  /\ pc' = [pc EXCEPT ![t] = CASE op[t] = "stop" -> "done"
                                [] op[t] = "restart" -> "s_exists"
                                [] OTHER -> "d_remove"]
  /\ res' = [res EXCEPT ![t] = IF op[t] = "stop" THEN "ok" ELSE "none"]
  /\ tc' = [tc EXCEPT ![t] = 0]
  /\ UNCHANGED <<fsVars, nextC, cbot, logAttached, waitReg, waitDone,
                 logVars, op, tid, resC, conc, stoppedAt, cfgVars, fileVars, callsLeft, chunksLeft, subsLeft,
                 wsVars, obsVars>>

\* DELETE handler lines 78-80, resumed after fs.remove(dir).
DeleteRemove(t) ==
  /\ pc[t] = "d_remove"
  /\ dirExists' = [dirExists EXCEPT ![tid[t]] = FALSE]
  /\ files' = [files EXCEPT ![tid[t]] = {}]
  /\ Finish(t, "ok", 0)
  /\ UNCHANGED <<fault, bots, contVars, logVars, op, tid, tc, conc, stoppedAt, cfgVars, fileVars,
                 callsLeft, chunksLeft, subsLeft, wsVars, obsVars>>

\* ------------------------------------------------- the sandbox and its logs

\* The sandboxed process ends: by itself, or, while a container.stop() for it
\* is pending, because of that stop (the daemon ends the process before it
\* answers the stop request).
ContainerExit(c) ==
  /\ cstate[c] = "running"
  /\ cstate' = [cstate EXCEPT ![c] = "exited"]
  /\ fault' = (fault \/ \A t \in Threads : ~(pc[t] = "t_stop" /\ tc[t] = c))
  /\ UNCHANGED <<fsVars, bots, nextC, cbot, logAttached, waitReg, waitDone,
                 logVars, threadVars, res, resC, cfgVars, fileVars, chunksLeft, subsLeft, wsVars,
                 obsVars>>

\* The k-th line appended to the entry of container c; k = 0 is the line the
\* wait callback writes.  (The text is a timestamp and the chunk, or the
\* timestamp and "container exited ...": lines 234 and 244.)
OutLine(c) == <<c, Len(SelectSeq(hist[cbot[c]], LAMBDA l : l[1] = c)) + 1>>
ExitLine(c) == <<c, 0>>

\* logStream.on('data'), lines 233-240: one chunk of the running sandbox's
\* output arrives.
LogData(c) ==
  /\ logAttached[c]
  /\ cstate[c] = "running"
  /\ chunksLeft > 0
  /\ chunksLeft' = chunksLeft - 1
  /\ logs' = [logs EXCEPT ![c] = PushShift(logs[c], OutLine(c))]
  /\ recv' = Deliver(recv, listeners[c], OutLine(c))
  /\ hist' = [hist EXCEPT ![cbot[c]] = Append(@, OutLine(c))]
  /\ after' = Observe(after, cbot[c], OutLine(c))
  /\ UNCHANGED <<fault, fsVars, bots, contVars, listeners, threadVars, res, resC,
                 cfgVars, fileVars, subsLeft, wsVars>>

\* container.wait().then(...), lines 243-248.
WaitCallback(c) ==
  /\ waitReg[c]
  /\ ~waitDone[c]
  /\ cstate[c] = "exited"
  /\ waitDone' = [waitDone EXCEPT ![c] = TRUE]
  /\ logs' = [logs EXCEPT ![c] = PushOnly(logs[c], ExitLine(c))]
  /\ recv' = Deliver(recv, listeners[c], ExitLine(c))
  /\ bots' = [bots EXCEPT ![cbot[c]] = 0]
  /\ hist' = [hist EXCEPT ![cbot[c]] = Append(@, ExitLine(c))]
  /\ after' = Observe(after, cbot[c], ExitLine(c))
  /\ UNCHANGED <<fault, fsVars, nextC, cstate, cbot, logAttached, waitReg,
                 listeners, threadVars, res, resC, cfgVars, fileVars, chunksLeft, subsLeft, wsVars>>

\* ------------------------------------------------------------ /ws/logs

\* The history message replaying every line ever appended for the bundle.
HistoryOfBundle(id) ==
  IF hist[id] # <<>>
  THEN <<<<"history", SliceLast(hist[id], Replay)>>>>
  ELSE <<>>

\* Line 173: the history message a new connection is sent, if any.
History(id) ==
  IF bots[id] # 0
  THEN <<<<"history", SliceLast(logs[bots[id]], Replay)>>>>
  ELSE <<>>

\* wss.on('connection'), lines 163-180, for a request that names a botId.
Connect(s, id) ==
  /\ wsState[s] = "idle"
  /\ IF s = 1 THEN TRUE ELSE wsState[s - 1] # "idle"
  /\ subsLeft > 0
  /\ subsLeft' = subsLeft - 1
  /\ id \in reqIds
  /\ wsState' = [wsState EXCEPT ![s] = "open"]
  /\ wsBot' = [wsBot EXCEPT ![s] = id]
  /\ wsEntry' = [wsEntry EXCEPT ![s] = bots[id]]
  /\ recv' = [recv EXCEPT ![s] = History(id)]
  /\ listeners' = IF bots[id] # 0
                  THEN [listeners EXCEPT ![bots[id]] = @ \cup {s}]
                  ELSE listeners
  /\ histAt' = [histAt EXCEPT ![s] = hist[id]]
  /\ UNCHANGED <<fault, fsVars, bots, contVars, logs, threadVars, res, resC, cfgVars, fileVars,
                 chunksLeft, hist, after>>

\* The socket of a connection leaves OPEN (the peer went away); from now on
\* ws.send on it fails.  Its listener stays in the entry until 'close' runs.
Break(s) ==
  /\ wsState[s] = "open"
  /\ wsState' = [wsState EXCEPT ![s] = "broken"]
  /\ UNCHANGED <<fault, fsVars, bots, contVars, logVars, threadVars, res, resC,
                 cfgVars, fileVars, chunksLeft, subsLeft, wsBot, wsEntry, histAt,
                 obsVars>>

\* ws.on('close'), line 180.
Close(s) ==
  /\ wsState[s] \in {"open", "broken"}
  /\ wsState' = [wsState EXCEPT ![s] = "closed"]
  /\ listeners' = IF wsEntry[s] # 0
                  THEN [listeners EXCEPT ![wsEntry[s]] = @ \ {s}]
                  ELSE listeners
  /\ UNCHANGED <<fault, fsVars, bots, contVars, logs, threadVars, res, resC, cfgVars, fileVars,
                 chunksLeft, subsLeft, wsBot, wsEntry, histAt, obsVars>>

\* ------------------------------------------------- GET and PUT .../file

\* Path strings are sequences of characters.
Chars == {"a", "b", ".", "/"}

\* DATA_DIR = path.resolve('./data/bots'), line 15: absolute, normalised, no
\* trailing separator.  The string "/d" stands for it.
DataDir == <<"/", "d">>

\* The :id of a file request: a bundle name, and a longer name it begins.
FileIds == {<<"a">>, <<"a", "b">>}

\* req.query.path / req.body.path that passed the `!rel` test: not empty.
RelPaths == UNION {[1..n -> Chars] : n \in 1..MaxRel}

\* String.prototype.split('/').
RECURSIVE Split(_)
Split(str) ==
  IF str = <<>> THEN <<<<>>>>
  ELSE LET r == Split(Tail(str))
       IN IF Head(str) = "/" THEN <<<<>>>> \o r
          ELSE <<<<Head(str)>> \o Head(r)>> \o Tail(r)

\* path.normalize on the segments of an absolute path: empty and "." segments
\* are skipped, ".." removes the segment before it and is dropped at the root.
RECURSIVE NormSegs(_, _)
NormSegs(segs, stack) ==
  IF segs = <<>> THEN stack
  ELSE LET g == Head(segs)
       IN IF g = <<>> \/ g = <<".">> THEN NormSegs(Tail(segs), stack)
          ELSE IF g = <<".", ".">>
          THEN NormSegs(Tail(segs),
                        IF stack = <<>> THEN stack
                        ELSE SubSeq(stack, 1, Len(stack) - 1))
          ELSE NormSegs(Tail(segs), Append(stack, g))

\* The segments written out, each after a separator.
RECURSIVE Flat(_)
Flat(segs) ==
  IF segs = <<>> THEN <<>> ELSE <<"/">> \o Head(segs) \o Flat(Tail(segs))

\* path.normalize of an absolute path string: a trailing separator is kept.
Normalize(str) ==
  LET segs == NormSegs(Split(str), <<>>)
  IN IF segs = <<>> THEN <<"/">>
     ELSE Flat(segs) \o (IF str[Len(str)] = "/" THEN <<"/">> ELSE <<>>)

\* path.join(DATA_DIR, id) and path.join(DATA_DIR, id, rel).
BundleRoot(id) == Normalize(DataDir \o <<"/">> \o id)
FilePath(id, rel) == Normalize(DataDir \o <<"/">> \o id \o <<"/">> \o rel)

\* String.prototype.startsWith.
StartsWith(str, prefix) ==
  /\ Len(prefix) <= Len(str)
  /\ SubSeq(str, 1, Len(prefix)) = prefix

\* Lines 106-107 and 117-118.
PathAllowed(id, rel) == StartsWith(FilePath(id, rel), BundleRoot(id))

\* GET /api/bots/:id/file, lines 102-110: the path check, then the file is
\* looked up and read ("read" stands for either answer of lines 108-110).
GetFile ==
  /\ fileRes = "none"
  /\ fileReq.method = "GET"
  /\ fileRes' = IF ~PathAllowed(fileReq.id, fileReq.rel)
                THEN "Invalid path" ELSE "read"
  /\ UNCHANGED <<fault, fsVars, bots, contVars, logVars, threadVars, res, resC,
                 cfgVars, fileReq, chunksLeft, subsLeft, wsVars, obsVars>>

\* PUT /api/bots/:id/file, lines 113-120: the path check, then outputFile.
PutFile ==
  /\ fileRes = "none"
  /\ fileReq.method = "PUT"
  /\ fileRes' = IF ~PathAllowed(fileReq.id, fileReq.rel)
                THEN "Invalid path" ELSE "written"
  /\ UNCHANGED <<fault, fsVars, bots, contVars, logVars, threadVars, res, resC,
                 cfgVars, fileReq, chunksLeft, subsLeft, wsVars, obsVars>>

\* ------------------------------------------------------------------- Next

\* The lifecycle requests, their continuations, and the sandbox's exit.
Lifecycle ==
  \/ \E t \in Threads, id \in Ids : StartInvoke(t, id)
  \/ \E t \in Threads, id \in Ids : StopInvoke(t, id)
  \/ \E t \in Threads, id \in Ids : RestartInvoke(t, id)
  \/ \E t \in Threads, id \in Ids : DeleteInvoke(t, id)
  \/ \E t \in Threads : StartExists(t)
  \/ \E t \in Threads : StartEntry(t)
  \/ \E t \in Threads : StartCreate(t)
  \/ \E t \in Threads : StartStarted(t)
  \/ \E t \in Threads : StartLogs(t)
  \/ \E t \in Threads : StopReturn(t)
  \/ \E t \in Threads : DeleteRemove(t)
  \/ \E c \in Conts : ContainerExit(c)
  \/ \E c \in Conts : WaitCallback(c)

\* The sandbox's output and the websocket connections.
Streaming ==
  \/ \E c \in Conts : LogData(c)
  \/ \E s \in Subs, id \in Ids : Connect(s, id)
  \/ \E s \in Subs : Close(s)

Next == Lifecycle

Spec == Init /\ [][Next]_vars

\* The same server with log output and websocket connections, and fewer
\* lifecycle requests.
InitWs ==
  /\ InitCommon
  /\ dirExists = [i \in Ids |-> i = "b1"]
  /\ files = [i \in Ids |-> IF i = "b1" THEN {"index.js"} ELSE {}]
  /\ reqIds = {"b1"}
  /\ seqClient = FALSE
  /\ callsLeft = MaxWsCalls
  /\ chunksLeft = MaxChunks
  /\ subsLeft = MaxSubs
  /\ fileReq = NoFile

NextWs == Lifecycle \/ Streaming

SpecWs == InitWs /\ [][NextWs]_vars

\* The same server used by one client that sends each request after the
\* answer to the one before: no two handlers are ever in flight together.
InitSeq ==
  /\ InitCommon
  /\ dirExists = [i \in Ids |-> i = "b1"]
  /\ files = [i \in Ids |-> IF i = "b1" THEN {"index.js"} ELSE {}]
  /\ reqIds = {"b1"}
  /\ seqClient = TRUE
  /\ callsLeft = MaxSeqCalls
  /\ chunksLeft = 0
  /\ subsLeft = 0
  /\ fileReq = NoFile

SpecSeq == InitSeq /\ [][Next]_vars

\* Bundle b1 has been started by one start request that has returned (the
\* state Spec reaches by StartInvoke, StartExists, StartEntry, StartCreate,
\* StartStarted and StartLogs, each adapter call succeeding), and no further
\* request arrives.
InitRunning ==
  /\ dirExists = [i \in Ids |-> i = "b1"]
  /\ files = [i \in Ids |-> IF i = "b1" THEN {"index.js"} ELSE {}]
  /\ bots = [i \in Ids |-> IF i = "b1" THEN 1 ELSE 0]
  /\ nextC = 1
  /\ cstate = [c \in Conts |-> IF c = 1 THEN "running" ELSE "none"]
  /\ cbot = [c \in Conts |-> IF c = 1 THEN "b1" ELSE "none"]
  /\ logs = [c \in Conts |-> <<>>]
  /\ listeners = [c \in Conts |-> {}]
  /\ logAttached = [c \in Conts |-> c = 1]
  /\ waitReg = [c \in Conts |-> c = 1]
  /\ waitDone = [c \in Conts |-> FALSE]
  /\ pc = [t \in Threads |-> IF t = 1 THEN "done" ELSE "idle"]
  /\ op = [t \in Threads |-> IF t = 1 THEN "start" ELSE "none"]
  /\ tid = [t \in Threads |-> IF t = 1 THEN "b1" ELSE "none"]
  /\ tc = [t \in Threads |-> IF t = 1 THEN 1 ELSE 0]
  /\ res = [t \in Threads |-> IF t = 1 THEN "started" ELSE "none"]
  /\ resC = [t \in Threads |-> IF t = 1 THEN 1 ELSE 0]
  /\ conc = [t \in Threads |-> {}]
  /\ stoppedAt = [t \in Threads |-> t = 1]
  /\ fault = FALSE
  /\ reqIds = {"b1"}
  /\ seqClient = TRUE
  /\ callsLeft = 0
  /\ fileReq = NoFile
  /\ fileRes = "none"
  /\ wsState = [s \in Subs |-> "idle"]
  /\ wsBot = [s \in Subs |-> "none"]
  /\ wsEntry = [s \in Subs |-> 0]
  /\ recv = [s \in Subs |-> <<>>]
  /\ hist = [i \in Ids |-> <<>>]
  /\ histAt = [s \in Subs |-> <<>>]
  /\ after = [s \in Subs |-> <<>>]

\* One sandbox run with a long output and no websocket connection.
InitLog ==
  /\ InitRunning
  /\ chunksLeft = MaxLogChunks
  /\ subsLeft = 0

NextLog ==
  \/ \E c \in Conts : LogData(c)
  \/ \E c \in Conts : ContainerExit(c)
  \/ \E c \in Conts : WaitCallback(c)

SpecLog == InitLog /\ [][NextLog]_vars

\* One sandbox run with websocket connections that come, break and go.
InitFan ==
  /\ InitRunning
  /\ chunksLeft = MaxFanChunks
  /\ subsLeft = MaxFanSubs

NextFan ==
  \/ \E c \in Conts : LogData(c)
  \/ \E c \in Conts : ContainerExit(c)
  \/ \E c \in Conts : WaitCallback(c)
  \/ \E s \in Subs, id \in Ids : Connect(s, id)
  \/ \E s \in Subs : Break(s)
  \/ \E s \in Subs : Close(s)

SpecFan == InitFan /\ [][NextFan]_vars

\* The server holding two bundles, b1 and b2, with requests, output and
\* websocket connections for both.
InitTwo ==
  /\ InitCommon
  /\ dirExists = [i \in Ids |-> TRUE]
  /\ files = [i \in Ids |-> {"index.js"}]
  /\ reqIds = Ids
  /\ seqClient = FALSE
  /\ callsLeft = MaxTwoCalls
  /\ chunksLeft = MaxTwoChunks
  /\ subsLeft = MaxSubs
  /\ fileReq = NoFile

SpecTwo == InitTwo /\ [][NextWs]_vars

\* One file request to a server that has just come up.
InitPath ==
  /\ InitCommon
  /\ dirExists = [i \in Ids |-> i = "b1"]
  /\ files = [i \in Ids |-> IF i = "b1" THEN {"index.js"} ELSE {}]
  /\ reqIds = {"b1"}
  /\ seqClient = TRUE
  /\ callsLeft = 0
  /\ chunksLeft = 0
  /\ subsLeft = 0
  /\ \E m \in {"GET", "PUT"}, id \in FileIds, rel \in RelPaths :
        fileReq = [method |-> m, id |-> id, rel |-> rel]

NextPath == GetFile \/ PutFile

SpecPath == InitPath /\ [][NextPath]_vars

\* ----------------------------------------------------------------- claims

\* The sandboxes of bundle id that docker has started and that have not ended.
Live(id) == {c \in Conts : cbot[c] = id /\ cstate[c] = "running"}

\* The sandboxes of bundle id that exist in docker and have not ended.
Sandboxes(id) == {c \in Conts : cbot[c] = id /\ cstate[c] \in {"created", "running"}}

\* No request handler is in flight.
Quiescent == \A t \in Threads : ~InFlight(t)

\* Every exit callback that can run has run.
Drained == \A c \in Conts : (waitReg[c] /\ cstate[c] = "exited") => waitDone[c]

\* Request r was answered before request t began, or was never sent.
Before(r, t) == op[r] = "none" \/ (r < t /\ r \notin conc[t])

\* Requests p and q were in flight together.
Overlap(p, q) == p \in conc[q] \/ q \in conc[p]

\* C1: two Start calls on a Stopped bundle whose executions overlap result in
\* exactly one sandbox: with no other request sent, no adapter failure and no
\* sandbox ending by itself, docker holds at most one sandbox of the bundle.
C1_OverlappingStartsOneSandbox ==
  \A p, q \in Threads :
    ( /\ p < q
      /\ op[p] = "start" /\ op[q] = "start" /\ tid[p] = tid[q]
      /\ stoppedAt[p]
      /\ p \in conc[q]
      /\ \A r \in Threads \ {p, q} : op[r] = "none"
      /\ ~fault )
    => Cardinality({c \in Conts : cbot[c] = tid[p]}) <= 1

\* C2: once every Start, Stop and Restart call on a bundle has completed (and
\* the exit callbacks have run), the registry is in a state a serial execution
\* reaches: with no adapter failure and no sandbox ending by itself, either no
\* entry and no sandbox, or an entry whose sandbox is running and is the only
\* sandbox of the bundle.
C2_SerialOutcome ==
  \A id \in Ids :
    ( /\ Quiescent
      /\ Drained
      /\ \A t \in Threads : op[t] # "delete"
      /\ ~fault )
    => /\ Sandboxes(id) \subseteq {bots[id]}
       /\ bots[id] # 0 => bots[id] \in Live(id)

\* C3: in every reachable state at most one sandbox that has been started and
\* has not ended exists for a bundle.
C3_AtMostOneLiveSandbox == \A id \in Ids : Cardinality(Live(id)) <= 1

\* C4: a Stop and a Start on one bundle that overlap, every other request
\* answered before either began: once both have completed and the exit
\* callbacks have run, with no adapter failure and no sandbox ending by itself,
\* a registry entry holds a running sandbox, and a running sandbox started by
\* that Start is the one in the registry.
C4_StopStartNoDanglingHandle ==
  \A p, q \in Threads :
    ( /\ op[p] = "stop" /\ op[q] = "start" /\ tid[p] = tid[q]
      /\ Overlap(p, q)
      /\ pc[p] = "done" /\ pc[q] = "done"
      /\ \A r \in Threads \ {p, q} : Before(r, p) /\ Before(r, q)
      /\ Drained
      /\ ~fault )
    => /\ bots[tid[q]] # 0 => cstate[bots[tid[q]]] = "running"
       /\ (tc[q] # 0 /\ cstate[tc[q]] = "running") => bots[tid[q]] = tc[q]

\* C5: Start, answered with a handle, then Start again on the same bundle,
\* with no request in between, the bundle Stopped before the first, the
\* first's sandbox still running when the second is answered, and no adapter
\* failure in the second: the second is answered "already running" with the
\* first's handle and creates no sandbox.
C5_SecondStartReturnsFirstHandle ==
  [][\A p, q \in Threads :
       ( /\ q = p + 1
         /\ op[p] = "start" /\ op[q] = "start" /\ tid[p] = tid[q]
         /\ stoppedAt[p]
         /\ pc[p] = "done" /\ res[p] = "started"
         /\ p \notin conc[q]
         /\ pc[q] # "done" /\ pc'[q] = "done"
         /\ res'[q] # "RuntimeFailure"
         /\ cstate'[resC[p]] = "running" )
       => /\ res'[q] = "already"
          /\ resC'[q] = resC[p]
          /\ tc'[q] = 0]_vars

\* C6: every log buffer holds at most 2000 lines, in every reachable state,
\* the line of the exit callback included.
C6_BufferAtMostCap == \A c \in Conts : Len(logs[c]) <= LogCap

\* The lines a connection was sent, in order: the lines of its history
\* message, then the line of each log message.
RECURSIVE Lines(_)
Lines(r) ==
  IF r = <<>> THEN <<>>
  ELSE (IF Head(r)[1] = "history" THEN Head(r)[2] ELSE <<Head(r)[2]>>)
       \o Lines(Tail(r))

\* C7: a connection made after N lines were appended for the bundle has been
\* sent the most recent min(N, 200) of them, in order, and then every line
\* appended for the bundle since, each once and in order.
C7_ReplayThenLive ==
  \A s \in Subs :
    wsState[s] # "idle"
    => Lines(recv[s]) = SliceLast(histAt[s], Replay) \o after[s]

\* How often line l occurs in sequence q.
Count(q, l) == Cardinality({i \in 1..Len(q) : q[i] = l})

\* C8: when the sandbox of a Running bundle (its Start has returned) has
\* ended, either its exit callback is still to run, or it has run: the
\* registry no longer holds the sandbox, its buffer holds exactly one exit
\* line, and every listener of the entry was sent that line once.
C8_ExitLeadsToStopped ==
  \A c \in Conts :
    ( /\ cstate[c] = "exited"
      /\ \E t \in Threads : tc[t] = c /\ pc[t] = "done" )
    => \/ waitReg[c] /\ ~waitDone[c]
       \/ /\ waitDone[c]
          /\ bots[cbot[c]] # c
          /\ Count(logs[c], ExitLine(c)) = 1
          /\ \A s \in listeners[c] : Count(recv[s], <<"log", ExitLine(c)>>) = 1

\* C9: Start on a bundle that is Stopped after a sandbox of it has ended,
\* with directory and entry point present and the adapter answering every
\* call of this Start with success, is answered with a new handle, and the
\* registry then holds that handle.
C9_StartAfterTermination ==
  [][\A q \in Threads :
       ( /\ op[q] = "start"
         /\ stoppedAt[q]
         /\ \E c \in Conts : cbot[c] = tid[q] /\ cstate[c] = "exited" /\ c # tc[q]
         /\ pc[q] # "done" /\ pc'[q] = "done"
         /\ dirExists[tid[q]] /\ EntryPoint(files[tid[q]]) # "none"
         /\ res'[q] # "RuntimeFailure" )
       => /\ res'[q] = "started"
          /\ bots'[tid[q]] = resC'[q]]_vars

\* C10: a Stop that finds an entry, with no other request in flight, ends with
\* the entry deleted, whether container.stop() succeeded or failed; a Stop that
\* finds no entry calls no adapter operation and leaves registry, sandboxes,
\* buffers and listeners as they were.
C10_StopConverges ==
  [][\A t \in Threads :
       /\ ( /\ op[t] = "stop"
            /\ pc[t] = "t_stop" /\ pc'[t] = "done"
            /\ \A u \in Threads \ {t} : ~InFlight(u) )
          => bots'[tid[t]] = 0
       /\ ( /\ pc[t] = "idle" /\ op'[t] = "stop"
            /\ bots[tid'[t]] = 0 )
          => /\ pc'[t] = "done"
             /\ bots' = bots /\ cstate' = cstate /\ nextC' = nextC
             /\ logs' = logs /\ listeners' = listeners]_vars

\* A Stop, alone in flight, whose container.stop() failed (the sandbox it was
\* to stop still runs) has ended with the entry deleted, and a later Stop that
\* found no entry has ended.
C10_Witness ==
  /\ op[1] = "start" /\ res[1] = "started"
  /\ op[2] = "stop" /\ pc[2] = "done" /\ conc[2] = {}
  /\ cstate[1] = "running" /\ bots["b1"] = 0
  /\ op[3] = "stop" /\ pc[3] = "done" /\ conc[3] = {}

\* C11: whenever a Start of a client that sends one request at a time is
\* answered with an error (bundle not found, no entry point, or a failure of
\* an adapter call), the registry holds no entry for the bundle when the
\* answer is given, so that a retry is not answered "already running".
C11_FailedStartLeavesNoEntry ==
  [][\A q \in Threads :
       ( /\ op[q] \in {"start", "restart"}
         /\ pc[q] # "done" /\ pc'[q] = "done"
         /\ res'[q] \in {"NotFound", "NoEntryPoint", "RuntimeFailure"} )
       => bots'[tid[q]] = 0]_vars

\* A startBot for bundle id has called createContainer, container.start() or
\* container.logs() and has not returned: a sandbox is being created.
Creating(id) ==
  {u \in Threads : tid[u] = id /\ pc[u] \in {"s_create", "s_start", "s_logs"}}

\* C12: when the Delete handler's fs.remove takes the bundle directory away,
\* with no adapter call having failed, no sandbox that mounts the directory
\* exists in docker created or running, and no Start is creating one.
C12_DeleteAfterSandboxGone ==
  [][\A t \in Threads :
       ( /\ pc[t] = "d_remove" /\ pc'[t] = "done"
         /\ ~fault' )
       => /\ Sandboxes(tid[t]) = {}
          /\ Creating(tid[t]) = {}]_vars

\* The segments of the normalised path of a file request, and of its bundle's
\* root directory.
FileSegs(id, rel) == NormSegs(Split(DataDir \o <<"/">> \o id \o <<"/">> \o rel), <<>>)
RootSegs(id) == NormSegs(Split(DataDir \o <<"/">> \o id), <<>>)

\* The file the request names is the bundle's root directory or lies below it.
Inside(id, rel) ==
  /\ Len(RootSegs(id)) <= Len(FileSegs(id, rel))
  /\ SubSeq(FileSegs(id, rel), 1, Len(RootSegs(id))) = RootSegs(id)

\* C13: a file read or write is answered 'Invalid path' exactly when the
\* joined, normalised path lies outside the bundle's root directory (a sibling
\* directory whose name begins with the bundle id included); the root and
\* every path below it pass the check.
C13_PathCheckIsContainment ==
  fileRes # "none"
  => (fileRes = "Invalid path" <=> ~Inside(fileReq.id, fileReq.rel))

\* The step is a step of an operation on bundle id: of a request handler for
\* it, of one of its sandboxes (exit, output, exit callback), or of a
\* websocket connection that names it.
Concerns(id) ==
  \/ \E t \in Threads : pc'[t] # pc[t] /\ tid'[t] = id
  \/ \E c \in Conts : /\ cbot[c] = id
                       /\ \/ cstate'[c] # cstate[c]
                          \/ waitDone'[c] # waitDone[c]
                          \/ logs'[c] # logs[c]
  \/ \E s \in Subs : wsState'[s] # wsState[s] /\ wsBot'[s] = id

C15_SecondStoppedTransitionIsNoOp ==
  [][/\ \A c \in Conts :
          ( /\ ~waitDone[c] /\ waitDone'[c]
            /\ bots[cbot[c]] # c )
          => bots' = bots
     /\ \A t \in Threads :
          ( /\ pc[t] = "t_stop" /\ pc'[t] # "t_stop"
            /\ bots[tid[t]] # tc[t] )
          => bots' = bots]_vars

\* The lines appended to the entry of container c, in append order.
Appended(c) == SelectSeq(hist[cbot[c]], LAMBDA l : l[1] = c)

\* C16: every append to the buffer of a sandbox run (an output line or the
\* exit line) leaves the buffer as it was with the new line at its end, less
\* its single oldest line when the append took it over 2000 lines; so the
\* buffer always is the most recent lines appended, in append order.
C16_BufferIsRecentSuffix ==
  [][\A c \in Conts :
       logs'[c] # logs[c]
       => /\ logs[c] = SliceLast(Appended(c), Len(logs[c]))
          /\ LET line == hist'[cbot[c]][Len(hist'[cbot[c]])]
                 kept == IF Len(logs[c]) + 1 > LogCap THEN Tail(logs[c]) ELSE logs[c]
             IN logs'[c] = Append(kept, line)]_vars

\* C17: when a line is appended to an entry one of whose listeners cannot be
\* sent to, the line is in the buffer, every listener that can be sent to is
\* sent the line, the listener set is as it was, and the data handler stays
\* attached to the running sandbox; a listener leaves the set only when its
\* connection is closed.
C17_FailedDeliveryIsSwallowed ==
  [][/\ \A c \in Conts :
          ( /\ logs'[c] # logs[c]
            /\ \E b \in listeners[c] : wsState[b] = "broken" )
          => LET line == hist'[cbot[c]][Len(hist'[cbot[c]])]
             IN /\ logs'[c][Len(logs'[c])] = line
                /\ \A s \in listeners[c] :
                     wsState[s] = "open"
                     => recv'[s] = Append(recv[s], <<"log", line>>)
                /\ listeners'[c] = listeners[c]
                /\ logAttached'[c] = logAttached[c]
                /\ waitDone'[c] \/ cstate'[c] = cstate[c]
     /\ \A c \in Conts, s \in Subs :
          (s \in listeners[c] /\ s \notin listeners'[c])
          => wsState'[s] = "closed"]_vars

\* Connection 1 can no longer be sent to and still is a listener of the entry;
\* connection 2, a listener of the same entry, was sent a line appended since,
\* which the buffer holds.
C17_Witness ==
  /\ wsState[1] = "broken" /\ wsState[2] = "open"
  /\ {1, 2} \subseteq listeners[1]
  /\ \E i \in 1..Len(logs[1]) :
       /\ Count(recv[2], <<"log", logs[1][i]>>) = 1
       /\ Count(recv[1], <<"log", logs[1][i]>>) = 0

\* C18: when a Start on a Stopped bundle, sent by a client that sends one
\* request at a time, is answered with the failure of createContainer or of
\* container.start(), docker holds no sandbox of the bundle, created or
\* running.
C18_FailedStartReleasesSandbox ==
  [][\A q \in Threads :
       ( /\ stoppedAt[q]
         /\ pc[q] \in {"s_create", "s_start"} /\ pc'[q] = "done"
         /\ res'[q] = "RuntimeFailure" )
       => \A c \in Conts :
            cbot'[c] = tid[q] => cstate'[c] \notin {"created", "running"}]_vars

\* The lines of the log messages a connection was sent, in order.
LogLines(r) == Lines(SelectSeq(r, LAMBDA m : m[1] = "log"))

\* C19: a connection is bound to the entry the registry held when it was
\* made: it is a listener of that entry only, and the log messages it was sent
\* are the lines appended to that entry while it was open (the exit line
\* included), none of them a line of another run; a connection made while the
\* registry held no entry is a listener of no entry and was sent nothing.
C19_BoundToEntryAtConnect ==
  \A s \in Subs :
    wsState[s] # "idle"
    => /\ \A c \in Conts : s \in listeners[c] => c = wsEntry[s]
       /\ LogLines(recv[s]) = SelectSeq(after[s], LAMBDA l : l[1] = wsEntry[s])
       /\ wsEntry[s] = 0 => recv[s] = <<>>

\* Connection 1, made during the first run, was sent that run's exit line and
\* is still open while a line of the second run is appended.
C19_Witness ==
  /\ wsState[1] = "open" /\ wsEntry[1] = 1
  /\ Count(recv[1], <<"log", ExitLine(1)>>) = 1
  /\ Count(after[1], <<2, 1>>) = 1

====
